---------------------------- MODULE Spec2Model ----------------------------
(***************************************************************************)
(* Model of src/index.js: the fetch-filter-paginate pipeline (getComments), *)
(* the renderer (generateCommentImage) and the custom-comments path        *)
(* (generateCustomComments), as started by main.                           *)
(*                                                                         *)
(* Strings are sequences of characters; a character is a one-element name. *)
(* "Idot" stands for U+0130, whose lower case in JavaScript is the two     *)
(* code units "i" and U+0307 ("dot").                                      *)
(***************************************************************************)
EXTENDS Integers, Sequences, FiniteSets, TLC

(***************************************************************************)
(* Bounds of the model.                                                    *)
(***************************************************************************)
MaxSource == 5
MaxQuota == 2
MaxCount == 1
MaxCharsBound == 2
MaxComments == 3

(***************************************************************************)
(* maxChars = Infinity (src/index.js:111, :332), encoded as -1.            *)
(***************************************************************************)
Infinity == -1

(***************************************************************************)
(* String functions of JavaScript used by the program.                     *)
(***************************************************************************)
AsciiUpper == {"A", "B", "C", "X"}
AsciiLower == {"a", "b", "c", "x"}

LowerOfUpper(ch) ==
  CASE ch = "A" -> "a"
    [] ch = "B" -> "b"
    [] ch = "C" -> "c"
    [] ch = "X" -> "x"

\* String.prototype.toLowerCase on one character: a sequence of code units.
ToLowerChar(ch) ==
  IF ch \in AsciiUpper THEN <<LowerOfUpper(ch)>>
  ELSE IF ch = "Idot" THEN <<"i", "dot">>
  ELSE <<ch>>

RECURSIVE toLowerCase(_)
toLowerCase(s) ==
  IF s = <<>> THEN <<>>
  ELSE ToLowerChar(Head(s)) \o toLowerCase(Tail(s))

\* String.prototype.includes: t occurs in s as a substring.
includes(s, t) ==
  \E i \in 0..(Len(s) - Len(t)) : SubSeq(s, i + 1, i + Len(t)) = t

\* One character through replace(/[^a-z0-9]/gi, '_'): ASCII letters and
\* digits are kept, everything else becomes '_'.
ReplaceChar(ch) ==
  IF ch \in AsciiUpper \cup AsciiLower THEN ch ELSE "_"

RECURSIVE replaceNonAlnum(_)
replaceNonAlnum(s) ==
  IF s = <<>> THEN <<>>
  ELSE <<ReplaceChar(Head(s))>> \o replaceNonAlnum(Tail(s))

\* Variant: the name keeps its upper-case letters.
filePathKeepsCase(username) == replaceNonAlnum(username)

\* The file name of generateCommentImage (without directory and ".png").
filePath(username) == toLowerCase(replaceNonAlnum(username))

(***************************************************************************)
(* The filter of getComments, computed as the loop body computes it.       *)
(***************************************************************************)
\* item.snippet.topLevelComment.snippet.textDisplay.toLowerCase()
commentText(item) == toLowerCase(item.content)

\* Variant: the flag is overwritten by every term, so only the last term counts.
RECURSIVE matchedFoldLastTerm(_, _, _)
matchedFoldLastTerm(text, terms, flag) ==
  IF terms = <<>> THEN flag
  ELSE matchedFoldLastTerm(text, Tail(terms), includes(text, toLowerCase(Head(terms))))

\* searchTermArray.forEach(term => { if (...) matched = true })
RECURSIVE matchedFold(_, _, _)
matchedFold(text, terms, flag) ==
  IF terms = <<>> THEN flag
  ELSE matchedFold(text, Tail(terms),
                   IF includes(text, toLowerCase(Head(terms))) THEN TRUE ELSE flag)

\* Variant: the flag starts as true.
matchedInitiallyTrue(item, p) == matchedFold(commentText(item), p.searchTerms, TRUE)

\* let matched = false; searchTermArray.forEach(...)
matched(item, p) == matchedFold(commentText(item), p.searchTerms, FALSE)

\* filteredWords.some(word => commentText.includes(word.toLowerCase()))
someFiltered(text, words) ==
  \E k \in 1..Len(words) : includes(text, toLowerCase(words[k]))

\* commentText.length > maxChars
exceedsMaxChars(text, maxChars) ==
  IF maxChars = Infinity THEN FALSE ELSE Len(text) > maxChars

\* The four pushes onto the `reason` array, in program order.
reason(item, p) ==
  LET text == commentText(item)
      r0 == <<>>
      r1 == IF item.likeCount < p.minLikes THEN Append(r0, "likes") ELSE r0
      r2 == IF item.replyCount < p.minReplies THEN Append(r1, "replies") ELSE r1
      r3 == IF someFiltered(text, p.filteredWords) THEN Append(r2, "filtered") ELSE r2
      r4 == IF exceedsMaxChars(text, p.maxChars) THEN Append(r3, "maxChars") ELSE r3
  IN r4

\* The commentData object handed to generateCommentImage.
commentData(item) ==
  [username |-> item.username, content |-> item.content, likeCount |-> item.likeCount]

(***************************************************************************)
(* State.                                                                  *)
(*   mode           the branch main takes: "fetch" or "custom"             *)
(*   argv           where the run begins: "custom" (--custom), "config"    *)
(*                  (--config, params read from the file), "args" (params  *)
(*                  built from the arguments) in main, or "none" for a run *)
(*                  that begins in the loop of getComments with validated  *)
(*                  params                                                 *)
(*   theme          argv.theme or params.theme, then the theme in use; ""  *)
(*                  is the empty string, "undefined" an absent value       *)
(*   videoIdArray   the identifiers, each with the pages the CommentSource *)
(*                  holds for it: a sequence of pages, a page a sequence   *)
(*                  of items                                               *)
(*   params         searchTerms, maxLimit, minLikes, minReplies,           *)
(*                  filteredWords, maxChars after destructuring            *)
(*   comments       the list given to generateCustomComments               *)
(*   pc             the position of the running async function             *)
(*   vi, ii, ci     loop positions: identifier, item of the page, comment  *)
(*   nextPageToken  0 is the empty or absent token, k > 0 the token that   *)
(*                  asks for page k + 1                                    *)
(*   response       the last response: [items, nextPageToken]              *)
(*   totalCommentsFetched                                                  *)
(*   browsers       puppeteer handles launched and not closed              *)
(*   dirExists, files   the directory comment-images and its files, a      *)
(*                  function from file name to the commentData it shows    *)
(*                  (OldFile for a file that was there before the run)     *)
(*   requests       history: every commentThreads.list call, <<vi, token>> *)
(*   renderCalls    history: every generateCommentImage call, its argument *)
(*   log            history: the rejection, saved and error lines written  *)
(*                  to the console                                         *)
(*   errors         history: the number of errors thrown so far by page    *)
(*                  requests and renders                                   *)
(***************************************************************************)
VARIABLES mode, argv, theme, videoIdArray, params, comments, pc, vi, ii, ci,
          nextPageToken, response, totalCommentsFetched, browsers, dirExists,
          files, requests, renderCalls, log, errors

vars == <<mode, argv, theme, videoIdArray, params, comments, pc, vi, ii, ci,
          nextPageToken, response, totalCommentsFetched, browsers, dirExists,
          files, requests, renderCalls, log, errors>>

inputVars == <<mode, argv, theme, videoIdArray, params, comments>>
loopVars == <<vi, ii, ci, nextPageToken, response, totalCommentsFetched>>
diskVars == <<dirExists, files>>

OldFile == [username |-> <<"o", "l", "d">>, content |-> <<>>, likeCount |-> 0]
NoResponse == [items |-> <<>>, nextPageToken |-> 0]

SeqUpTo(S, n) == UNION {[1..k -> S] : k \in 0..n}
NonEmptySeqUpTo(S, n) == UNION {[1..k -> S] : k \in 1..n}

Item(u, c, l, r) == [username |-> u, content |-> c, likeCount |-> l, replyCount |-> r]

(***************************************************************************)
(* Inputs.  A run starts from one of four families of inputs:              *)
(*   - pagination: every source that MaxSource symbols describe, a symbol  *)
(*     being one of three items (two accepted, with user names that share  *)
(*     a file name, and one rejected), the end of a page or the end of an  *)
(*     identifier; any quota;                                              *)
(*   - filter: one identifier with one page of up to two items, over all   *)
(*     items and all criteria of the filter domain;                        *)
(*   - custom: a list of comments rendered directly, over every state of   *)
(*     the output directory and every theme the command line accepts;      *)
(*   - main: main called for the fetch path, with params from a config     *)
(*     file or from the arguments, valid and invalid.                      *)
(***************************************************************************)
UserA == <<"A", "!">>
UserA2 == <<"a", "_">>
UserB == <<"b">>

ItemA == Item(UserA, <<"C">>, MaxCount, 0)
ItemA2 == Item(UserA2, <<"c", "x">>, MaxCount, 0)
ItemB == Item(UserB, <<"c">>, 0, 0)

PagItems == {ItemA, ItemA2, ItemB}

PagParams ==
  [searchTerms : {<< <<"c">> >>}, maxLimit : 1..MaxQuota, minLikes : {MaxCount},
   minReplies : {0}, filteredWords : {<<>>}, maxChars : {Infinity}]

\* A source written as a sequence of symbols: "A", "A2", "B" are the items,
\* "page" ends a page of the identifier, "video" ends the identifier.
Symbols == {"A", "A2", "B", "page", "video"}

ItemOf(sym) ==
  CASE sym = "A" -> ItemA
    [] sym = "A2" -> ItemA2
    [] sym = "B" -> ItemB

\* The pieces of s between the occurrences of sep.
RECURSIVE Split(_, _)
Split(s, sep) ==
  IF \A k \in 1..Len(s) : s[k] # sep
    THEN <<s>>
    ELSE LET k == CHOOSE k \in 1..Len(s) : s[k] = sep /\ \A j \in 1..(k - 1) : s[j] # sep
         IN <<SubSeq(s, 1, k - 1)>> \o Split(SubSeq(s, k + 1, Len(s)), sep)

SourceOf(s) ==
  LET vs == Split(s, "video")
  IN [v \in 1..Len(vs) |->
        LET ps == Split(vs[v], "page")
        IN [q \in 1..Len(ps) |-> [i \in 1..Len(ps[q]) |-> ItemOf(ps[q][i])]]]

\* No identifier at all, or the identifiers of a description.
PagWorlds == {<<>>} \cup {SourceOf(s) : s \in SeqUpTo(Symbols, MaxSource)}

Contents ==
  { <<"x">>, <<"C">>, <<"c", "X">>, <<"Idot", "c">>, <<"c", "X", "c">> }

FilterItems ==
  { Item(u, c, l, r) : u \in {UserB}, c \in Contents, l \in 0..MaxCount, r \in 0..MaxCount }

FilterParams ==
  [searchTerms : {<<>>, << <<"x">> >>, << <<"C">>, <<"X", "c">> >>},
   maxLimit : {MaxQuota},
   minLikes : 0..MaxCount,
   minReplies : 0..MaxCount,
   filteredWords : {<<>>, << <<"b">>, <<"X">> >>},
   maxChars : {Infinity} \cup 1..MaxCharsBound]

FilterWorlds == { << <<page>> >> : page \in NonEmptySeqUpTo(FilterItems, 2) }

CustomComments == { commentData(i) : i \in PagItems }

\* Criteria that accept nothing and criteria that accept everything: the
\* custom path reads neither.
CustomParams ==
  [searchTerms : {<<>>, << <<"c">> >>}, maxLimit : {1}, minLikes : {0},
   minReplies : {0}, filteredWords : {<<>>}, maxChars : {Infinity}]

NoFiles == [n \in {} |-> OldFile]
OneOldFile == [n \in {filePath(UserA)} |-> OldFile]

InitRun ==
  /\ vi = 1
  /\ ii = 1
  /\ ci = 1
  /\ nextPageToken = 0
  /\ response = NoResponse
  /\ totalCommentsFetched = 0
  /\ browsers = 0
  /\ requests = <<>>
  /\ renderCalls = <<>>
  /\ log = <<>>
  /\ errors = 0

InitFetch ==
  /\ mode = "fetch"
  /\ argv = "none"
  /\ theme = "dark"
  /\ \/ videoIdArray \in PagWorlds /\ params \in PagParams
     \/ videoIdArray \in FilterWorlds /\ params \in FilterParams
  /\ comments = <<>>
  /\ dirExists = FALSE
  /\ files = NoFiles
  /\ pc = "forVideo"

\* choices: ['dark', 'light'] (src/index.js:63): what yargs lets through.
ArgvThemes == {"undefined", "dark", "light"}

\* What a config file can hold as theme.
ConfigThemes == {"undefined", "", "dark", "light", "blue"}

MainParams ==
  [searchTerms : {<<>>, << <<"c">> >>}, maxLimit : {1}, minLikes : {-1, 0},
   minReplies : {-1, 0}, filteredWords : {<<>>}, maxChars : {Infinity}]

MainWorlds == {<<>>, << << <<ItemA>> >> >>}

InitMain ==
  /\ mode = "fetch"
  /\ \/ argv = "config" /\ theme \in ConfigThemes
     \/ argv = "args" /\ theme \in ArgvThemes
  /\ videoIdArray \in MainWorlds
  /\ params \in MainParams
  /\ comments = <<>>
  /\ dirExists = FALSE
  /\ files = NoFiles
  /\ pc = "main"

InitCustom ==
  /\ mode = "custom"
  /\ argv = "custom"
  /\ theme \in ArgvThemes
  /\ videoIdArray = <<>>
  /\ params \in CustomParams
  /\ comments \in SeqUpTo(CustomComments, MaxComments)
  /\ \/ dirExists = FALSE /\ files = NoFiles
     \/ dirExists = TRUE /\ files \in {NoFiles, OneOldFile}
  /\ pc = "main"

Init == InitRun /\ (InitFetch \/ InitCustom \/ InitMain)

(***************************************************************************)
(* main and validateParams (src/index.js:315-344, 74-113).                 *)
(***************************************************************************)
\* The truth value JavaScript gives a theme and a number.
truthyTheme(t) == t \notin {"undefined", ""}
truthyNumber(x) == x # 0

\* argv.theme || 'dark'
themeOrDark(t) == IF truthyTheme(t) THEN t ELSE "dark"

\* main: the custom branch goes to generateCustomComments with
\* argv.theme || 'dark'; the other branch takes the params of the config
\* file as they are, or builds them from the arguments with || defaults,
\* and exits when videoIds or searchTerms is empty.
Main ==
  /\ pc = "main"
  /\ IF argv = "custom"
       THEN /\ theme' = themeOrDark(theme)
            /\ pc' = "forComment"
            /\ UNCHANGED params
       ELSE /\ IF argv = "args"
                 THEN /\ theme' = themeOrDark(theme)
                      /\ params' = [params EXCEPT
                                      !.maxLimit = IF truthyNumber(@) THEN @ ELSE 10,
                                      !.maxChars = IF truthyNumber(@) THEN @ ELSE Infinity]
                 ELSE UNCHANGED <<theme, params>>
            /\ pc' = IF Len(videoIdArray) = 0 \/ Len(params.searchTerms) = 0
                       THEN "exit"
                       ELSE "validate"
  /\ UNCHANGED <<mode, argv, videoIdArray, comments, loopVars, browsers, diskVars,
                 requests, renderCalls, log, errors>>

\* if (params.theme && (params.theme !== 'dark' && params.theme !== 'light')) throw
themeValid(t) == ~(truthyTheme(t) /\ (t # "dark" /\ t # "light"))

\* if (params.x && (typeof params.x !== 'number' || params.x < least)) throw
numberValid(x, least) == ~(truthyNumber(x) /\ x < least)

\* validateParams: no check throws.
paramsValid(p, t) ==
  /\ numberValid(p.maxLimit, 1)
  /\ numberValid(p.minLikes, 0)
  /\ numberValid(p.minReplies, 0)
  /\ (p.maxChars = Infinity \/ numberValid(p.maxChars, 1))
  /\ themeValid(t)

\* getComments up to its loop: validateParams(params), then the
\* destructuring with theme = 'dark' for an absent theme.
ValidateParams ==
  /\ pc = "validate"
  /\ IF paramsValid(params, theme)
       THEN /\ theme' = IF theme = "undefined" THEN "dark" ELSE theme
            /\ pc' = "forVideo"
       ELSE /\ pc' = "invalid"
            /\ UNCHANGED theme
  /\ UNCHANGED <<mode, argv, videoIdArray, params, comments, loopVars, browsers,
                 diskVars, requests, renderCalls, log, errors>>

(***************************************************************************)
(* getComments: the loop over the identifiers (src/index.js:121-189).      *)
(***************************************************************************)
\* for (const videoId of videoIdArray) { let nextPageToken = ''; do {
ForVideo ==
  /\ pc = "forVideo"
  /\ IF vi <= Len(videoIdArray)
       THEN /\ nextPageToken' = 0
            /\ pc' = "list"
       ELSE /\ pc' = "done"
            /\ UNCHANGED nextPageToken
  /\ UNCHANGED <<inputVars, vi, ii, ci, response, totalCommentsFetched, browsers,
                 diskVars, requests, renderCalls, log, errors>>

\* Variant: the token is not passed on, every request gets the first page.
listPageIgnoringToken(v, t) ==
  [items |-> videoIdArray[v][1],
   nextPageToken |-> IF t + 1 < Len(videoIdArray[v]) THEN t + 1 ELSE 0]

\* The page the CommentSource holds for identifier v behind token t.
listPage(v, t) ==
  [items |-> videoIdArray[v][t + 1],
   nextPageToken |-> IF t + 1 < Len(videoIdArray[v]) THEN t + 1 ELSE 0]

\* const response = await youtube.commentThreads.list({... pageToken: nextPageToken})
ListPage ==
  /\ pc = "list"
  /\ requests' = Append(requests, <<vi, nextPageToken>>)
  /\ response' = listPage(vi, nextPageToken)
  /\ ii' = 1
  /\ pc' = "forItem"
  /\ UNCHANGED <<inputVars, vi, ci, nextPageToken, totalCommentsFetched, browsers,
                 diskVars, renderCalls, log, errors>>

\* The same call, rejected: the error reaches the catch of getComments.
ListPageFails ==
  /\ pc = "list"
  /\ requests' = Append(requests, <<vi, nextPageToken>>)
  /\ pc' = "catch"
  /\ errors' = errors + 1
  /\ UNCHANGED <<inputVars, loopVars, browsers, diskVars, renderCalls, log>>

\* Variants of the break: off by one, and missing.
itemBreakOffByOne(total, maxLimit) == total > maxLimit
itemBreakMissing(total, maxLimit) == FALSE

\* if (totalCommentsFetched >= maxLimit) break;   (src/index.js:133)
itemBreak(total, maxLimit) == total >= maxLimit

\* Variant: the loop goes on for as long as the quota is not reached.
whileQuota(token, total, maxLimit) == total < maxLimit

\* Variant: the loop goes on for as long as there is a token.
whileToken(token, total, maxLimit) == token # 0

\* while (nextPageToken && totalCommentsFetched < maxLimit)   (src/index.js:184)
whileCondition(token, total, maxLimit) == token # 0 /\ total < maxLimit

\* Variant: the loop over the identifiers is left after the first one.
videoBreakAlways(total, maxLimit) == TRUE

\* if (totalCommentsFetched >= maxLimit) break;   (src/index.js:186)
videoBreak(total, maxLimit) == total >= maxLimit

LogEntry(kind, username, reasons) ==
  [kind |-> kind, username |-> username, reasons |-> reasons]

\* for (const item of response.data.items) { ... }, one item per step.
ForItem ==
  /\ pc = "forItem"
  /\ IF ii > Len(response.items) \/ itemBreak(totalCommentsFetched, params.maxLimit)
       THEN /\ pc' = "pageEnd"
            /\ UNCHANGED <<ii, renderCalls, log>>
       ELSE LET item == response.items[ii]
            IN IF ~matched(item, params)
                 THEN /\ ii' = ii + 1
                      /\ UNCHANGED <<pc, renderCalls, log>>
                 ELSE IF Len(reason(item, params)) > 0
                   THEN /\ log' = Append(log, LogEntry("rejected", item.username,
                                                       reason(item, params)))
                        /\ ii' = ii + 1
                        /\ UNCHANGED <<pc, renderCalls>>
                   ELSE /\ renderCalls' = Append(renderCalls, commentData(item))
                        /\ pc' = "launch"
                        /\ UNCHANGED <<ii, log>>
  /\ UNCHANGED <<inputVars, vi, ci, nextPageToken, response, totalCommentsFetched,
                 browsers, diskVars, requests, errors>>

\* nextPageToken = response.data.nextPageToken;
\* } while (nextPageToken && totalCommentsFetched < maxLimit);
\* if (totalCommentsFetched >= maxLimit) break;
PageEnd ==
  /\ pc = "pageEnd"
  /\ nextPageToken' = response.nextPageToken
  /\ IF whileCondition(nextPageToken', totalCommentsFetched, params.maxLimit)
       THEN /\ pc' = "list"
            /\ UNCHANGED vi
       ELSE IF videoBreak(totalCommentsFetched, params.maxLimit)
         THEN /\ pc' = "done"
              /\ UNCHANGED vi
         ELSE /\ vi' = vi + 1
              /\ pc' = "forVideo"
  /\ UNCHANGED <<inputVars, ii, ci, response, totalCommentsFetched, browsers,
                 diskVars, requests, renderCalls, log, errors>>

\* Variant: the catch sits inside the loop over the identifiers, and the
\* run goes on with the next identifier.
CatchPerVideo ==
  /\ pc = "catch"
  /\ log' = Append(log, LogEntry("error", <<>>, <<>>))
  /\ vi' = vi + 1
  /\ pc' = "forVideo"
  /\ UNCHANGED <<inputVars, ii, ci, nextPageToken, response, totalCommentsFetched,
                 browsers, diskVars, requests, renderCalls, errors>>

\* } catch (err) { console.error('Error: ', err); }
Catch ==
  /\ pc = "catch"
  /\ log' = Append(log, LogEntry("error", <<>>, <<>>))
  /\ pc' = "done"
  /\ UNCHANGED <<inputVars, loopVars, browsers, diskVars, requests, renderCalls, errors>>

(***************************************************************************)
(* generateCommentImage (src/index.js:234-277), one step per group of      *)
(* awaits.  Its argument is the last element of renderCalls.               *)
(***************************************************************************)
\* Where an error thrown by generateCommentImage lands: the catch of
\* getComments, or the rejected promise of generateCustomComments.
thrown == IF mode = "fetch" THEN "catch" ELSE "rejected"

\* generateCommentHTML(...); const browser = await puppeteer.launch();
Launch ==
  /\ pc = "launch"
  /\ browsers' = browsers + 1
  /\ pc' = "screenshot"
  /\ UNCHANGED <<inputVars, loopVars, diskVars, requests, renderCalls, log, errors>>

\* generateCommentHTML or puppeteer.launch throws: no handle exists.
LaunchFails ==
  /\ pc = "launch"
  /\ pc' = thrown
  /\ errors' = errors + 1
  /\ UNCHANGED <<inputVars, loopVars, browsers, diskVars, requests, renderCalls, log>>

writeFile(fs, name, data) ==
  [n \in DOMAIN fs \cup {name} |-> IF n = name THEN data ELSE fs[n]]

\* newPage, setContent, $, boundingBox, mkdirSync, page.screenshot({path: filePath})
Screenshot ==
  /\ pc = "screenshot"
  /\ dirExists' = TRUE
  /\ files' = writeFile(files, filePath(renderCalls[Len(renderCalls)].username),
                        renderCalls[Len(renderCalls)])
  /\ pc' = "close"
  /\ UNCHANGED <<inputVars, loopVars, browsers, requests, renderCalls, log, errors>>

\* One of these calls throws: before mkdirSync, or in page.screenshot after it.
\* No file is written and the handle stays open.
ScreenshotFails ==
  /\ pc = "screenshot"
  /\ \E afterMkdir \in BOOLEAN : dirExists' = (dirExists \/ afterMkdir)
  /\ pc' = thrown
  /\ errors' = errors + 1
  /\ UNCHANGED <<inputVars, loopVars, browsers, files, requests, renderCalls, log>>

\* await browser.close(); then back in the caller: the log line and the
\* counter of getComments (src/index.js:177-178), or the log line of
\* generateCustomComments (src/index.js:311).
Close ==
  /\ pc = "close"
  /\ browsers' = browsers - 1
  /\ log' = Append(log, LogEntry("saved", renderCalls[Len(renderCalls)].username, <<>>))
  /\ IF mode = "fetch"
       THEN /\ totalCommentsFetched' = totalCommentsFetched + 1
            /\ ii' = ii + 1
            /\ pc' = "forItem"
            /\ UNCHANGED ci
       ELSE /\ ci' = ci + 1
            /\ pc' = "forComment"
            /\ UNCHANGED <<totalCommentsFetched, ii>>
  /\ UNCHANGED <<inputVars, vi, nextPageToken, response, diskVars, requests, renderCalls, errors>>

\* Variant: the counter is incremented before the render has returned.
CloseFailsCounted ==
  /\ pc = "close"
  /\ pc' = thrown
  /\ errors' = errors + 1
  /\ totalCommentsFetched' = totalCommentsFetched + 1
  /\ UNCHANGED <<inputVars, vi, ii, ci, nextPageToken, response, browsers, diskVars,
                 requests, renderCalls, log>>

\* browser.close() rejects.
CloseFails ==
  /\ pc = "close"
  /\ pc' = thrown
  /\ errors' = errors + 1
  /\ UNCHANGED <<inputVars, loopVars, browsers, diskVars, requests, renderCalls, log>>

(***************************************************************************)
(* generateCustomComments (src/index.js:307-313).                          *)
(***************************************************************************)
\* Variant: the loop stops one comment early.
ForCommentButLast ==
  /\ pc = "forComment"
  /\ IF ci < Len(comments)
       THEN /\ renderCalls' = Append(renderCalls, comments[ci])
            /\ pc' = "launch"
       ELSE /\ pc' = "done"
            /\ UNCHANGED renderCalls
  /\ UNCHANGED <<inputVars, loopVars, browsers, diskVars, requests, log, errors>>

\* for (const comment of comments) { await generateCommentImage(comment, theme);
ForComment ==
  /\ pc = "forComment"
  /\ IF ci <= Len(comments)
       THEN /\ renderCalls' = Append(renderCalls, comments[ci])
            /\ pc' = "launch"
       ELSE /\ pc' = "done"
            /\ UNCHANGED renderCalls
  /\ UNCHANGED <<inputVars, loopVars, browsers, diskVars, requests, log, errors>>

Next ==
  \/ Main
  \/ ValidateParams
  \/ ForVideo
  \/ ListPage
  \/ ListPageFails
  \/ ForItem
  \/ PageEnd
  \/ Catch
  \/ Launch
  \/ LaunchFails
  \/ Screenshot
  \/ ScreenshotFails
  \/ Close
  \/ CloseFails
  \/ ForComment

Spec == Init /\ [][Next]_vars

\* The sources of the pagination family without the second accepted item,
\* which differs from the first in its user name and content only.
TerminationWorlds ==
  {<<>>} \cup {SourceOf(s) : s \in SeqUpTo(Symbols \ {"A2"}, MaxSource)}

\* getComments called on one of these sources.
InitPagination ==
  /\ mode = "fetch"
  /\ argv = "none"
  /\ theme = "dark"
  /\ videoIdArray \in TerminationWorlds
  /\ params \in PagParams
  /\ comments = <<>>
  /\ dirExists = FALSE
  /\ files = NoFiles
  /\ pc = "forVideo"

\* The runs whose length depends on the source: every identifier list, page
\* structure and quota, next to the custom and the main family.  The filter
\* family has one page of one identifier.
InitFair == InitRun /\ (InitPagination \/ InitCustom \/ InitMain)

\* The run under the assumption that every awaited call returns (resolved or
\* rejected): the single thread of control takes its next step whenever it
\* has one.
FairSpec == InitFair /\ [][Next]_vars /\ WF_vars(Next)

(***************************************************************************)
(* Definitions used to state the properties.                               *)
(***************************************************************************)
RECURSIVE Flatten(_)
Flatten(ss) == IF ss = <<>> THEN <<>> ELSE Head(ss) \o Flatten(Tail(ss))

\* All items of the source: identifiers in list order, pages in
\* continuation order, items in page order.
Stream == Flatten([v \in 1..Len(videoIdArray) |-> Flatten(videoIdArray[v])])

IsAccepted(item) == matched(item, params) /\ reason(item, params) = <<>>

AcceptedStream == SelectSeq(Stream, IsAccepted)

Min(a, b) == IF a < b THEN a ELSE b

Take(seq, n) == SubSeq(seq, 1, n)

LogOf(kind) == SelectSeq(log, LAMBDA e : e.kind = kind)

FetchRun == mode = "fetch"

(***************************************************************************)
(* C1: in every reachable state of a getComments run the counter           *)
(* totalCommentsFetched is at most the configured quota maxLimit.          *)
(***************************************************************************)
C1_QuotaNeverExceeded ==
  FetchRun => totalCommentsFetched <= params.maxLimit

\* The quota is reached while items, pages and identifiers remain.
C1_Witness ==
  /\ FetchRun
  /\ pc = "done"
  /\ totalCommentsFetched = params.maxLimit
  /\ ii <= Len(response.items)
  /\ response.nextPageToken # 0
  /\ vi < Len(videoIdArray)
  /\ Len(AcceptedStream) > params.maxLimit

(***************************************************************************)
(* C2: across a getComments run the number of calls of                     *)
(* generateCommentImage, failed calls included, is at most the quota.      *)
(***************************************************************************)
C2_RenderCallsWithinQuota ==
  FetchRun => Len(renderCalls) <= params.maxLimit

\* The quota is used up by calls of which the last one failed.
C2_Witness ==
  /\ FetchRun
  /\ pc = "done"
  /\ errors = 1
  /\ Len(renderCalls) = params.maxLimit
  /\ totalCommentsFetched = params.maxLimit - 1
  /\ Len(AcceptedStream) > params.maxLimit

C4_RenderedIsPrefixOfAccepted ==
  (FetchRun /\ pc = "done" /\ errors = 0)
    => renderCalls = [k \in 1..Min(params.maxLimit, Len(AcceptedStream))
                        |-> commentData(AcceptedStream[k])]

\* Two identifiers with more accepted items than the quota: every render
\* comes from the first identifier and the second is never asked for.
C4_Witness ==
  /\ FetchRun
  /\ pc = "done"
  /\ errors = 0
  /\ Len(videoIdArray) = 2
  /\ Len(AcceptedStream) > params.maxLimit
  /\ Len(renderCalls) = params.maxLimit
  /\ params.maxLimit = 2
  /\ renderCalls[1] # renderCalls[2]
  /\ \A k \in 1..Len(requests) : requests[k][1] = 1

(***************************************************************************)
(* The filter as the specification states it: the term match and the four  *)
(* checks, on the item that the step ForItem is looking at.                *)
(***************************************************************************)
\* ForItem is about to evaluate an item (it neither leaves the page nor
\* breaks on the quota).
Evaluating ==
  /\ FetchRun
  /\ pc = "forItem"
  /\ ii <= Len(response.items)
  /\ totalCommentsFetched < params.maxLimit

CurrentItem == response.items[ii]

\* The case-folded content contains a case-folded search term.
ContainsTerm(item) ==
  \E t \in 1..Len(params.searchTerms) :
    includes(toLowerCase(item.content), toLowerCase(params.searchTerms[t]))

LikesOk(item) == item.likeCount >= params.minLikes
RepliesOk(item) == item.replyCount >= params.minReplies
WordsOk(item) ==
  \A w \in 1..Len(params.filteredWords) :
    ~includes(toLowerCase(item.content), toLowerCase(params.filteredWords[w]))
\* The length of the content as retrieved.
LengthOk(item) == params.maxChars = Infinity \/ Len(item.content) <= params.maxChars

Rendered == renderCalls' = Append(renderCalls, commentData(CurrentItem))
Rejected == Len(log') = Len(log) + 1 /\ log'[Len(log')].kind = "rejected"

(***************************************************************************)
(* C5: a term-matched item is accepted (rendered) if and only if           *)
(* likeCount >= minLikes, replyCount >= minReplies, its case-folded        *)
(* content contains no case-folded filtered word and the length of its     *)
(* content is at most maxChars; otherwise it is rejected and not rendered. *)
(***************************************************************************)
C5_AcceptedIffFourChecks ==
  [][(Evaluating /\ ContainsTerm(CurrentItem))
       => /\ Rendered <=> (/\ LikesOk(CurrentItem)
                           /\ RepliesOk(CurrentItem)
                           /\ WordsOk(CurrentItem)
                           /\ LengthOk(CurrentItem))
          /\ Rejected <=> ~Rendered]_vars

(***************************************************************************)
(* C6: the reasons of a rejection are one entry per failed check and       *)
(* nothing else, in the order likes, replies, filtered word, max           *)
(* characters, whatever an earlier item was rejected for.                  *)
(***************************************************************************)
ExpectedReasons(item) ==
  SelectSeq(<<"likes", "replies", "filtered", "maxChars">>,
            LAMBDA r : \/ r = "likes" /\ ~LikesOk(item)
                       \/ r = "replies" /\ ~RepliesOk(item)
                       \/ r = "filtered" /\ ~WordsOk(item)
                       \/ r = "maxChars" /\ ~LengthOk(item))

C6_ReasonsCumulativeOrdered ==
  [][(Evaluating /\ ContainsTerm(CurrentItem))
       => IF ExpectedReasons(CurrentItem) = <<>>
            THEN log' = log
            ELSE log' = Append(log, LogEntry("rejected", CurrentItem.username,
                                             ExpectedReasons(CurrentItem)))]_vars

(***************************************************************************)
(* C7: with an empty list of search terms no item is accepted or rendered  *)
(* and totalCommentsFetched stays 0 for the whole run.                     *)
(***************************************************************************)
C7_EmptyTermsAcceptNothing ==
  (FetchRun /\ params.searchTerms = <<>>)
    => /\ totalCommentsFetched = 0
       /\ renderCalls = <<>>
       /\ files = NoFiles
       /\ LogOf("saved") = <<>>

\* A run without search terms that scanned a page of two items to its end.
C7_Witness ==
  /\ FetchRun
  /\ params.searchTerms = <<>>
  /\ pc = "done"
  /\ errors = 0
  /\ Len(requests) = 1
  /\ Len(response.items) = 2
  /\ ii = 3

(***************************************************************************)
(* C8: an item is evaluated against the checks (it is rendered or          *)
(* rejected) if and only if its case-folded content contains a case-folded *)
(* search term; an item that matches no term is skipped and changes        *)
(* nothing: no log line, no render, the counter and the token unchanged.   *)
(***************************************************************************)
C8_UnmatchedItemsSkipped ==
  [][Evaluating
       => /\ ContainsTerm(CurrentItem) <=> (Rendered \/ Rejected)
          /\ ~ContainsTerm(CurrentItem)
               => /\ log' = log
                  /\ renderCalls' = renderCalls
                  /\ totalCommentsFetched' = totalCommentsFetched
                  /\ nextPageToken' = nextPageToken
                  /\ <<files, dirExists, browsers, requests>>'
                       = <<files, dirExists, browsers, requests>>
                  /\ ii' = ii + 1
                  /\ pc' = "forItem"]_vars

\* A page with an item that matches no term, skipped, followed by an item
\* that matches only through case folding and was rejected.
C8_Witness ==
  /\ FetchRun
  /\ pc = "done"
  /\ errors = 0
  /\ Len(response.items) = 2
  /\ ~ContainsTerm(response.items[1])
  /\ ContainsTerm(response.items[2])
  /\ ~includes(response.items[2].content, params.searchTerms[1])
  /\ Len(log) = 1
  /\ log[1].kind = "rejected"
  /\ renderCalls = <<>>

(***************************************************************************)
(* C9: the first error of a page request or of a render aborts the run of  *)
(* getComments: no page request and no render follows it, it is caught and *)
(* logged exactly once, getComments ends without raising, and the images   *)
(* written before it stay as they are.                                     *)
(***************************************************************************)
C9_FirstErrorAbortsRun ==
  /\ [](FetchRun => /\ errors <= 1
                    /\ pc # "rejected"
                    /\ Len(LogOf("error")) = (IF pc = "catch" THEN 0 ELSE errors))
  /\ [][(FetchRun /\ errors = 1)
          => /\ requests' = requests
             /\ renderCalls' = renderCalls
             /\ files' = files
             /\ totalCommentsFetched' = totalCommentsFetched
             /\ pc' = "done"]_vars

\* A run that had written an image and had items, pages and identifiers
\* left when the error came.
C9_Witness ==
  /\ FetchRun
  /\ pc = "done"
  /\ errors = 1
  /\ Len(LogOf("error")) = 1
  /\ files # NoFiles
  /\ totalCommentsFetched < params.maxLimit
  /\ vi < Len(videoIdArray)

(***************************************************************************)
(* C10: rendering a list of N comments through generateCustomComments      *)
(* leaves exactly N image files, whatever the criteria, with no page       *)
(* request and no filter.                                                  *)
(***************************************************************************)
CustomDone == mode = "custom" /\ pc = "done"

\* The files the run wrote.
WrittenFiles == {n \in DOMAIN files : files[n] # OldFile}

\* A user name in lower case with '_' for everything but letters and digits.
SanitizedName(username) ==
  [k \in 1..Len(username) |->
     IF username[k] \in AsciiLower THEN username[k]
     ELSE IF username[k] \in AsciiUpper THEN LowerOfUpper(username[k])
     ELSE "_"]

SanitizedNames == {SanitizedName(comments[k].username) : k \in 1..Len(comments)}

\* The claim as stated: N files for N comments.
C10_OneFilePerComment ==
  CustomDone => /\ Cardinality(WrittenFiles) = Len(comments)
                /\ requests = <<>>
                /\ LogOf("rejected") = <<>>

\* As amended: every comment is rendered, and the files written are one
\* per distinct sanitized user name, which is N files only when the N
\* sanitized names differ; no page request, no filter.
C10_OneFilePerSanitizedName ==
  CustomDone => /\ renderCalls = comments
                /\ WrittenFiles = SanitizedNames
                /\ (Cardinality(SanitizedNames) = Len(comments)
                      => Cardinality(WrittenFiles) = Len(comments))
                /\ requests = <<>>
                /\ LogOf("rejected") = <<>>

\* Three comments of which two share a sanitized name, rendered under
\* criteria that accept nothing: two files.
C10_Witness ==
  /\ CustomDone
  /\ Len(comments) = 3
  /\ params.searchTerms = <<>>
  /\ comments[1].username # comments[3].username
  /\ SanitizedName(comments[1].username) = SanitizedName(comments[3].username)
  /\ Cardinality(WrittenFiles) = 2

(***************************************************************************)
(* C11: the file name is a function of the user name alone (lower case,    *)
(* '_' for every character outside [a-z0-9]); after any sequence of        *)
(* successful renders the files written are the sanitized user names       *)
(* rendered, and the file of a name shows the comment rendered last under  *)
(* that name.                                                              *)
(***************************************************************************)
\* No call of generateCommentImage is under way.
NoRenderRunning == pc \notin {"launch", "screenshot", "close"}

\* The last render call whose user name sanitizes to n.
LastRenderOf(n) ==
  LET ks == {k \in 1..Len(renderCalls) : SanitizedName(renderCalls[k].username) = n}
  IN renderCalls[CHOOSE k \in ks : \A j \in ks : j <= k]

C11_FilesNamedBySanitizedUser ==
  (errors = 0 /\ NoRenderRunning)
    => /\ WrittenFiles
            = {SanitizedName(renderCalls[k].username) : k \in 1..Len(renderCalls)}
       /\ \A n \in WrittenFiles : files[n] = LastRenderOf(n)

\* Two comments of different users with one sanitized name were rendered:
\* one file, showing the second.
C11_Witness ==
  /\ errors = 0
  /\ NoRenderRunning
  /\ Len(renderCalls) = 2
  /\ renderCalls[1].username = UserA
  /\ renderCalls[2].username = UserA2
  /\ DOMAIN files = {<<"a", "_">>}
  /\ files[<<"a", "_">>] = renderCalls[2]

(***************************************************************************)
(* C12: every theme that reaches generateCommentImage is 'dark' or         *)
(* 'light', for all params that pass validateParams and every command line *)
(* that main accepts.                                                      *)
(***************************************************************************)
C12_ThemeDarkOrLight ==
  renderCalls # <<>> => theme \in {"dark", "light"}

(***************************************************************************)
(* C13: a configuration with an empty list of identifiers, an empty list   *)
(* of search terms, a theme that is neither 'dark' nor 'light', or a       *)
(* negative threshold is detected before any I/O: main issues no page      *)
(* request and no render for it, and ends with an error.                   *)
(***************************************************************************)
FromMain == argv \in {"config", "args"}

MalformedTheme == theme \notin {"dark", "light", "undefined"}

ConfigurationError ==
  \/ Len(videoIdArray) = 0
  \/ Len(params.searchTerms) = 0
  \/ MalformedTheme
  \/ params.minLikes < 0
  \/ params.minReplies < 0

C13_ConfigurationErrorsBeforeIO ==
  (FromMain /\ ConfigurationError)
    => /\ requests = <<>>
       /\ renderCalls = <<>>
       /\ pc \in {"main", "validate", "exit", "invalid"}


(***************************************************************************)
(* C14: the handle of the rendering engine is acquired and released per    *)
(* rendered record, in both paths: at most one handle is open at any time, *)
(* no handle is open when a page request or a render is about to begin,    *)
(* and no handle is open when the run has ended.                           *)
(***************************************************************************)
RunEnded == pc \in {"done", "rejected", "exit", "invalid"}

AboutToStartIO == pc \in {"forVideo", "list", "forItem", "pageEnd", "forComment", "launch"}

C14_HandleReleasedPerRecord ==
  /\ browsers <= 1
  /\ AboutToStartIO => browsers = 0
  /\ RunEnded => browsers = 0

(***************************************************************************)
(* C15: the first page request of each identifier carries the empty token, *)
(* whatever the previous identifier left behind; every later request of    *)
(* the identifier carries the token of the response to the request right   *)
(* before it, which is a request of the same identifier; no request of an  *)
(* identifier follows a response that carries no token.                    *)
(***************************************************************************)
\* The empty token is 0, as in ForVideo and listPage.
RequestedBefore(v) == \E k \in 1..Len(requests) : requests[k][1] = v

TokenThreaded(v, t) ==
  IF RequestedBefore(v)
    THEN /\ requests[Len(requests)][1] = v
         /\ response = listPage(v, requests[Len(requests)][2])
         /\ t = response.nextPageToken
         /\ t # 0
    ELSE t = 0

C15_TokenThreading ==
  [][requests' # requests
       => /\ Len(requests') = Len(requests) + 1
          /\ TokenThreaded(requests'[Len(requests')][1], requests'[Len(requests')][2])]_vars

C15_Witness ==
  /\ Len(requests) = 3
  /\ requests[1] = <<1, 0>>
  /\ requests[2] = <<1, 1>>
  /\ requests[3] = <<2, 0>>
  /\ errors = 0
  /\ pc = "forItem"

(***************************************************************************)
(* C16: when every awaited call returns, a getComments run that has        *)
(* started its loops eventually reaches DONE; and in DONE without an       *)
(* error, either totalCommentsFetched equals the quota or every page of    *)
(* every identifier has been requested, in order, and scanned to its end.  *)
(***************************************************************************)
Started ==
  /\ FetchRun
  /\ pc \in {"forVideo", "list", "forItem", "pageEnd", "catch", "launch", "screenshot", "close"}

AllRequests ==
  Flatten([v \in 1..Len(videoIdArray)
             |-> [t \in 1..Len(videoIdArray[v]) |-> <<v, t - 1>>]])

IsRejected(item) == matched(item, params) /\ reason(item, params) # <<>>

AllPagesScanned ==
  /\ requests = AllRequests
  /\ requests # <<>> => ii > Len(response.items) /\ response.nextPageToken = 0
  /\ Len(renderCalls) = Len(AcceptedStream)
  /\ Len(LogOf("rejected")) = Len(SelectSeq(Stream, IsRejected))

DoneByQuotaOrExhaustion ==
  (FetchRun /\ pc = "done" /\ errors = 0)
    => totalCommentsFetched = params.maxLimit \/ AllPagesScanned

C16_Termination ==
  /\ [](DoneByQuotaOrExhaustion)
  /\ Started ~> (pc = "done")

\* Both ends are reached: a run of two identifiers, the first of two pages,
\* that exhausts the source below its quota.
C16_Witness ==
  /\ FetchRun
  /\ pc = "done"
  /\ errors = 0
  /\ totalCommentsFetched = 1
  /\ params.maxLimit = 2
  /\ Len(videoIdArray) = 2
  /\ Len(requests) = 3
  /\ AllPagesScanned

(***************************************************************************)
(* C17: in a getComments run totalCommentsFetched is the number of calls   *)
(* of generateCommentImage that have returned: it is incremented by one on *)
(* the step on which a call returns, and on no other step, so a call that  *)
(* fails, a rejected item and a skipped item leave it unchanged.           *)
(***************************************************************************)
RenderReturns == pc = "close" /\ pc' = "forItem"

CounterIsCompletedRenders ==
  FetchRun
    => /\ totalCommentsFetched = Len(LogOf("saved"))
       /\ totalCommentsFetched \in {Len(renderCalls) - 1, Len(renderCalls)}
       /\ (errors = 0 /\ NoRenderRunning) => totalCommentsFetched = Len(renderCalls)
       /\ (NoRenderRunning /\ totalCommentsFetched < Len(renderCalls)) => errors > 0

C17_CounterCountsCompletedRenders ==
  /\ [](CounterIsCompletedRenders)
  /\ [][FetchRun
          => IF RenderReturns
               THEN totalCommentsFetched' = totalCommentsFetched + 1 /\ errors' = errors
               ELSE totalCommentsFetched' = totalCommentsFetched]_vars

\* A render fails after another one has returned, and after an item was
\* rejected.
C17_Witness ==
  /\ FetchRun
  /\ pc = "done"
  /\ errors = 1
  /\ Len(renderCalls) = 2
  /\ totalCommentsFetched = 1
  /\ Len(LogOf("rejected")) = 1
  /\ browsers = 1
=============================================================================
